---- MODULE Spec2Model ----
(***************************************************************************)
(* Model of generate_assets.py: seven procedural audio synthesizers, each  *)
(* a loop over sample indices i = 0 .. n_samples-1 that mixes oscillators, *)
(* noise, envelopes and a one-pole filter and appends one clamped 16-bit   *)
(* sample per index.                                                       *)
(*                                                                         *)
(* Number representation.  Python floats are modelled as follows:          *)
(*  - times are exact rationals: t = i / sample_rate;                      *)
(*  - the move_air phase accumulator is an exact IEEE-754 double, kept as  *)
(*    three 21-bit limbs in units of 2^-61, with round-to-nearest-even     *)
(*    after every addition (the property of interest depends on rounding); *)
(*  - gains, sines and exponentials are fixed-point integers over          *)
(*    GainScale; math.sin and math.exp are evaluated by rational           *)
(*    approximations (absolute error below 0.01);                         *)
(*  - random.random() * 2 - 1 is a nondeterministic draw from a grid of    *)
(*    NoiseLevels values in [-1, 1) over NoiseScale;                       *)
(*  - the value handed to the quantizer is fixed-point over ValScale.      *)
(***************************************************************************)
EXTENDS Integers, Sequences, FiniteSets

\* ---- modelling resolutions (bounds) ----
NoiseScale == 8
NoiseLevels == 3
GainScale == 256
AngleRes == 1024
ValScale == 4096

\* ---- program constants ----
sample_rate == 44100
bpm == 130
PCM_MAX == 32767

\* ---- integer helpers ----
Abs(x) == IF x < 0 THEN -x ELSE x

Min(a, b) == IF a < b THEN a ELSE b

Max(a, b) == IF a > b THEN a ELSE b

\* mutant: the quotient rounded down
TDiv_floor(n, d) == n \div d

\* quotient rounded toward zero: what int() does to a float
TDiv(n, d) == IF n >= 0 THEN n \div d ELSE -((-n) \div d)

\* floor(a * b / c) for a, b, c >= 0, without forming a * b
MulDiv(a, b, c) == (a \div c) * b + ((a % c) * b) \div c

\* product of two gains over GainScale, again over GainScale
Mix(a, b) == TDiv(a * b, GainScale)

\* ---- math.sin ----
\* sin(2 * pi * num / den) over GainScale, num >= 0, den > 0.
\* Bhaskara's approximation sin(pi h) ~ 16 h (1-h) / (5 - 4 h (1-h)) on each
\* half turn, h taken on a grid of AngleRes points.
SinTurn(num, den) ==
    LET n  == num % den
        h2 == IF 2 * n >= den THEN 2 * n - den ELSE 2 * n
        sg == IF 2 * n >= den THEN -1 ELSE 1
        g  == (h2 * AngleRes) \div den
        a  == g * (AngleRes - g)
    IN  sg * ((16 * a * GainScale) \div (5 * AngleRes * AngleRes - 4 * a))

\* ---- math.exp ----
\* exp(-k * tn / td) over GainScale, for k, tn >= 0, td > 0.
\* exp(-x) = 2^(-y) with y = x * log2(e) (log2(e) ~ 189/131); the integer part
\* of y halves the result, the fractional part u uses 2^(-u) ~ (6 - 4u + u^2)/6.
ExpNeg(k, tn, td) ==
    LET xr == MulDiv(k * tn, AngleRes, td)
        yr == (xr * 189) \div 131
        e  == yr \div AngleRes
        f  == yr % AngleRes
        R2 == AngleRes * AngleRes
        fr == ((6 * R2 - 4 * f * AngleRes + f * f) * GainScale) \div (6 * R2)
    IN  IF e >= 30 THEN 0 ELSE fr \div (2 ^ e)

\* ---- the quantizer: int(max(-32767, min(32767, value * 32767))) ----
\* v is the value over ValScale; the product v * 32767 is kept over ValScale.
\* mutant: clamps to the full 16-bit range -32768 .. 32767
Clamp_int16(x) == Max(-(PCM_MAX + 1) * ValScale, Min(PCM_MAX * ValScale, x))

Clamp(x) == Max(-PCM_MAX * ValScale, Min(PCM_MAX * ValScale, x))

Quantize(v) == TDiv(Clamp(v * PCM_MAX), ValScale)

\* ---- the noise source: random.random() * 2 - 1, over NoiseScale ----
Noise == { -NoiseScale + (k * (2 * NoiseScale - 1)) \div (NoiseLevels - 1) :
             k \in 0 .. NoiseLevels - 1 }

\* ---- IEEE-754 double arithmetic for the phase accumulator ----
\* A double d in [0, 2) is the integer d * 2^61 written in base 2^21 as
\* <<a2, a1, a0>>; every double the accumulator takes is such an integer.
LimbBase == 2 ^ 21

\* 1.0 = 2^61 = 2^19 * 2^42
OneTop == 2 ^ 19

\* freq / sample_rate = 150 / 44100 rounded to double: 0x1.bdd2b899406f7p-9
PhaseInc == <<1783, 613452, 1312503>>

BitLen(n) == IF n = 0 THEN 0 ELSE CHOOSE k \in 1 .. 21 : 2 ^ (k - 1) <= n /\ n < 2 ^ k

LimbAdd(x, y) ==
    LET s0 == x[3] + y[3]
        s1 == x[2] + y[2] + s0 \div LimbBase
    IN  <<x[1] + y[1] + s1 \div LimbBase, s1 % LimbBase, s0 % LimbBase>>

\* round to 53 significant bits, ties to even
RoundDouble(x) ==
    LET s == BitLen(x[1]) - 11
        m == 2 ^ s
        r == x[3] % m
        up == 2 * r > m \/ (2 * r = m /\ (x[3] \div m) % 2 = 1)
        down == <<x[1], x[2], x[3] - r>>
    IN  IF s <= 0 THEN x
        ELSE IF up THEN LimbAdd(down, <<0, 0, m>>) ELSE down

\* the float addition x + y
FloatAdd(x, y) == RoundDouble(LimbAdd(x, y))

\* the float comparison x > 1
GreaterThanOne(x) == x[1] > OneTop \/ (x[1] = OneTop /\ (x[2] > 0 \/ x[3] > 0))

\* the float comparison x < 1
LessThanOne(x) == x[1] < OneTop

\* x - 1 for x in [1, 2): exact in floating point
SubOne(x) == <<x[1] - OneTop, x[2], x[3]>>

\* a double in [0, 2) as a gain over GainScale (truncated)
LimbGain(x) == (x[1] * GainScale) \div OneTop

\* ---- the one-pole filters ----
\* quotient rounded away from zero: the filter memory lives on the noise grid,
\* and rounding outward lets it reach every level the real recurrence
\* approaches under a sustained extreme draw (rounding inward would stall it).
ADiv(n, d) == IF n >= 0 THEN (n + d - 1) \div d ELSE -((-n + d - 1) \div d)

\* explosion: value = (last_val + raw_noise) / 2
LowPassHalf(last, raw) == ADiv(last + raw, 2)

\* move_water: val = last_val * 0.9 + raw * 0.1
LowPassStrong(last, raw) == ADiv(9 * last + raw, 10)

\* ---- durations and sample counts ----
\* the functions of the program, in the order __main__ calls them
Order == <<"generate_shoot", "generate_explosion", "generate_recruit",
           "generate_move_land", "generate_move_water", "generate_move_air",
           "generate_music">>

\* beat_dur = 60 / bpm as a fraction in lowest terms (6 / 13 at 130 BPM)
BeatNum == 60 \div 10

BeatDen == bpm \div 10

\* duration of each function's sound, in seconds, as a fraction <<num, den>>
Duration(f) ==
    CASE f = "generate_shoot"      -> <<2, 10>>
      [] f = "generate_explosion"  -> <<8, 10>>
      [] f = "generate_recruit"    -> <<5, 10>>
      [] f = "generate_move_land"  -> <<15, 100>>
      [] f = "generate_move_water" -> <<3, 10>>
      [] f = "generate_move_air"   -> <<4, 10>>
      [] f = "generate_music"      -> <<BeatNum * 4 * 4, BeatDen>>

\* mutant: the sample count rounded to the nearest integer
NSamples_rounded(f) == (2 * Duration(f)[1] * sample_rate + Duration(f)[2]) \div (2 * Duration(f)[2])

\* n_samples = int(duration * sample_rate)
NSamples(f) == (Duration(f)[1] * sample_rate) \div Duration(f)[2]

FileName(f) ==
    CASE f = "generate_shoot"      -> "shoot.wav"
      [] f = "generate_explosion"  -> "explosion.wav"
      [] f = "generate_recruit"    -> "recruit.wav"
      [] f = "generate_move_land"  -> "move_land.wav"
      [] f = "generate_move_water" -> "move_water.wav"
      [] f = "generate_move_air"   -> "move_air.wav"
      [] f = "generate_music"      -> "defcat_main_menu.mp3"

\* a fraction <<num, den>> in [0, 1] as a gain over GainScale
Gain(q) == (q[1] * GainScale) \div q[2]

\* a mixed value over GainScale, scaled by num/den, as a quantizer input over ValScale
Scaled(v, num, den) == TDiv(v * num * ValScale, den * GainScale)

\* ---- generate_shoot: loop body ----
ShootEnvelope(n) == ExpNeg(20, n, sample_rate)

ShootValue(n, raw) == TDiv(raw * ShootEnvelope(n) * ValScale, NoiseScale * GainScale * 2)

\* ---- generate_explosion: loop body ----
ExplosionEnvelope(n) == ExpNeg(5, n, sample_rate)

ExplosionValue(n, value) ==
    TDiv(value * ExplosionEnvelope(n) * 8 * ValScale, NoiseScale * GainScale * 10)

\* ---- generate_recruit: loop body ----
\* val = (sin(2 pi 440 t) + sin(2 pi 554 t) + sin(2 pi 659 t)) / 3
RecruitVal(n) ==
    TDiv(SinTurn(440 * n, sample_rate) + SinTurn(554 * n, sample_rate)
           + SinTurn(659 * n, sample_rate), 3)

\* mutant: the release is measured from the start of the release, not from
\* the end of the sound
RecruitEnvelope_early(tn, td) ==
    IF 10 * tn < td THEN <<10 * tn, td>>
    ELSE IF 10 * tn > 4 * td THEN <<4 * td - 10 * tn, td>>
    ELSE <<1, 1>>

\* the fade in/out at time t = tn / td, as an exact fraction:
\* t < 0.1: t / 0.1;  t > 0.4: (0.5 - t) / 0.1;  else 1.0
RecruitEnvelope(tn, td) ==
    IF 10 * tn < td THEN <<10 * tn, td>>
    ELSE IF 10 * tn > 4 * td THEN <<5 * td - 10 * tn, td>>
    ELSE <<1, 1>>

RecruitValue(n) ==
    Scaled(Mix(RecruitVal(n), Gain(RecruitEnvelope(n, sample_rate))), 5, 10)

\* ---- generate_move_land: loop body ----
LandEnvelope(n) == ExpNeg(25, n, sample_rate)

\* val = sine * 0.6 + noise * 0.4
LandVal(n, raw) ==
    TDiv(SinTurn(80 * n, sample_rate) * 6 * NoiseScale + raw * 4 * GainScale,
         10 * NoiseScale)

LandValue(n, raw) == Scaled(Mix(LandVal(n, raw), LandEnvelope(n)), 4, 10)

\* ---- generate_move_water: loop body ----
\* mod = 0.5 + 0.5 * sin(2 pi 5 t), over 2 * GainScale
WaterMod(n) == GainScale + SinTurn(5 * n, sample_rate)

\* envelope = sin(pi * (t / duration))
WaterEnvelope(n) == SinTurn(n, 2 * NSamples("generate_move_water"))

\* final_val = val * mod * envelope * 2.0   (val over NoiseScale)
WaterValue(n, val) ==
    LET m  == WaterMod(n) * WaterEnvelope(n)
        vm == TDiv(val * m, GainScale)
    IN  TDiv(vm * ValScale, NoiseScale * GainScale)

\* ---- generate_move_air: loop body ----
\* mutant: the phase is never wrapped
AirPhase_unwrapped(ph) == FloatAdd(ph, PhaseInc)

\* phase += freq / sample_rate; if phase > 1: phase -= 1
AirPhase(ph) ==
    LET q == FloatAdd(ph, PhaseInc)
    IN  IF GreaterThanOne(q) THEN SubOne(q) ELSE q

\* saw = phase * 2 - 1
AirSaw(ph) == 2 * LimbGain(ph) - GainScale

\* val = saw * 0.3 + sine * 0.5, sine = sin(2 pi (freq / 2) t)
AirVal(n, ph) == TDiv(AirSaw(ph) * 3 + SinTurn(75 * n, sample_rate) * 5, 10)

\* envelope = 1.0; if t < 0.05: t / 0.05; if t > 0.35: (0.4 - t) / 0.05
AirEnvelope(n) ==
    IF 100 * n > 35 * sample_rate THEN <<8 * sample_rate - 20 * n, sample_rate>>
    ELSE IF 100 * n < 5 * sample_rate THEN <<20 * n, sample_rate>>
    ELSE <<1, 1>>

AirValue(n, ph) == Scaled(Mix(AirVal(n, ph), Gain(AirEnvelope(n))), 3, 10)

\* ---- generate_music: the beat clock ----
\* Musical time is counted in ticks of 1 / (2 * sample_rate * BeatDen) s, in
\* which t = i / sample_rate, beat_dur and every threshold of the sequencer
\* are whole (even) numbers.
TicksPerSec == 2 * sample_rate * BeatDen

\* beat_dur = 60 / bpm
BeatTicks == 2 * sample_rate * BeatNum

\* bar_dur = beat_dur * 4
BarTicks == BeatTicks * 4

\* beat_dur / 2
HalfBeatTicks == BeatTicks \div 2

\* sixteenth = beat_dur / 4
SixteenthTicks == BeatTicks \div 4

\* the literal 0.15 (kick gate)
KickTicks == (15 * TicksPerSec) \div 100

\* the literal 0.1 (hi-hat gate length)
HatTicks == TicksPerSec \div 10

\* In exact arithmetic t = i / sample_rate in ticks.
ExactTicks(n) == 2 * BeatDen * n

\* A sample whose exact time falls on a threshold of the sequencer: there the
\* rounding of the doubles t, beat_dur and t % beat_dur decides the comparison,
\* and the float result may fall on either side.
OnThreshold(n) ==
    /\ n > 0
    /\ \/ ExactTicks(n) % SixteenthTicks = 0
       \/ ExactTicks(n) % BeatTicks = KickTicks
       \/ ExactTicks(n) % BeatTicks = HalfBeatTicks + HatTicks

\* the rounding error of the float time, in ticks
Rounding(n) == IF OnThreshold(n) THEN {-1, 0, 1} ELSE {0}

\* notes = [440, 554, 659, 880, 659, 554, 440, 329] * 2
notes == <<440, 554, 659, 880, 659, 554, 440, 329,
           440, 554, 659, 880, 659, 554, 440, 329>>

\* ---- generate_music: the four voices, at sample n with float time tk ticks ----
\* mutant: the kick gate stays open into the second half of the beat
KickOn_long(bt) == bt < HalfBeatTicks + KickTicks

KickOn(bt) == bt < KickTicks

HatOn(bt) == bt > HalfBeatTicks /\ bt < HalfBeatTicks + HatTicks

BassOn(bt) == bt > HalfBeatTicks

\* k_env = exp(-kt * 20)
KickEnv(bt) == ExpNeg(20, bt, TicksPerSec)

\* sin(2 pi k_freq kt) * k_env * 0.8, k_freq = 150 * exp(-kt * 30)
KickVoice(bt) ==
    LET turns == SinTurn(ExpNeg(30, bt, TicksPerSec) * bt,
                         GainScale * (TicksPerSec \div 150))
    IN  Scaled(Mix(turns, KickEnv(bt)), 8, 10)

\* h_env = exp(-ht * 50), ht = beat_time - beat_dur / 2
HatEnv(bt) == ExpNeg(50, bt - HalfBeatTicks, TicksPerSec)

\* h_noise * h_env * 0.3
HatVoice(bt, raw) == TDiv(raw * HatEnv(bt) * 3 * ValScale, NoiseScale * GainScale * 10)

\* bar index t // bar_dur
BarIndex(tk) == tk \div BarTicks

\* mutant: the two bass notes are swapped
BassFreq_swapped(tk) == IF BarIndex(tk) % 2 = 1 THEN 550 ELSE 412

\* b_freq in tenths of a hertz: 55, or 41.2 when (t // bar_dur) % 2 == 1
BassFreq(tk) == IF BarIndex(tk) % 2 = 1 THEN 412 ELSE 550

\* mutant: the decay is measured from the start of the beat
BassEnv_whole(bt) == <<HalfBeatTicks - bt, HalfBeatTicks>>

\* b_env = 1.0 - (bt / (beat_dur / 2)), bt = beat_time - beat_dur / 2
BassEnv(bt) == <<BeatTicks - bt, HalfBeatTicks>>

\* b_val = (sin(2 pi b_freq t) > 0) * 1.0 - 0.5;  b_val * b_env * 0.4
BassVoice(n, tk, bt) ==
    LET sg == IF SinTurn(BassFreq(tk) * n, 10 * sample_rate) > 0 THEN 1 ELSE -1
    IN  Scaled(sg * Gain(BassEnv(bt)), 4, 20)

\* mutant: the step is counted within the beat, not within the bar
LeadStep_beat(tk) == (tk % BeatTicks) \div SixteenthTicks

\* step = int((t % bar_dur) / sixteenth)
LeadStep(tk) == (tk % BarTicks) \div SixteenthTicks

\* note = notes[step % len(notes)]
LeadNote(st) == notes[(st % Len(notes)) + 1]

\* l_env = exp(-l_t * 10), l_t = t % sixteenth
LeadEnv(tk) == ExpNeg(10, tk % SixteenthTicks, TicksPerSec)

\* sin(2 pi note t) * l_env * 0.15
LeadVoice(n, tk) ==
    Scaled(Mix(SinTurn(LeadNote(LeadStep(tk)) * n, sample_rate), LeadEnv(tk)), 15, 100)

\* ---- the locals of a function call ----
\* One frame holds the locals of the running function.  The frame is not
\* cleared between calls: a local holds what was last assigned to it until the
\* running function assigns it, so every initialisation the code performs
\* matters.  A local nobody has assigned yet is shown as 0.
Silent == [on |-> {}, kick |-> 0, hat |-> 0, bass |-> 0, lead |-> 0,
           k_env |-> 0, h_env |-> 0, b_env |-> 0, l_env |-> 0, b_freq |-> 0]

Unbound ==
    [n_samples |-> 0,          \* n_samples
     it        |-> 0,          \* the next index range(n_samples) yields
     i         |-> 0,          \* the loop variable
     len       |-> 0,          \* number of samples packed into data
     sample    |-> 0,          \* the sample packed last
     final_val |-> 0,          \* the value quantized last, over ValScale
     envelope  |-> 0,          \* envelope of the one-shot sounds, over GainScale
     last_val  |-> 0,          \* filter memory, over NoiseScale
     phase     |-> <<0, 0, 0>>,  \* move_air phase accumulator, a double as limbs
     beat_time |-> 0,          \* music: t % beat_dur, in ticks
     bar_time  |-> 0,          \* music: t % bar_dur, in ticks
     bar_index |-> 0,          \* music: t // bar_dur
     step      |-> 0,          \* music: lead step
     note      |-> 0,          \* music: lead note
     voices    |-> Silent]     \* music: the voices whose if-branch ran (on), and
                               \* per voice its gain and what it added to val
                               \* (0 while its gate is closed), b_freq in 0.1 Hz

\* n_samples = int(duration * sample_rate); data = bytearray()
Enter(F, f) == [F EXCEPT !.n_samples = NSamples(f), !.it = 0, !.len = 0]

\* for i in range(n_samples): the next index
Iterate(F) == [F EXCEPT !.i = F.it, !.it = F.it + 1]

\* data.extend(struct.pack('<h', int(max(-32767, min(32767, v * 32767)))))
Pack(F, v) == [F EXCEPT !.final_val = v, !.sample = Quantize(v), !.len = F.len + 1]

\* ---- the statements before each loop ----
shoot_enter(F) == Enter(F, "generate_shoot")

\* mutant: the filter memory is not initialised
explosion_enter_stale(F) == Enter(F, "generate_explosion")

explosion_enter(F) == [Enter(F, "generate_explosion") EXCEPT !.last_val = 0]

recruit_enter(F) == Enter(F, "generate_recruit")

move_land_enter(F) == Enter(F, "generate_move_land")

move_water_enter(F) == [Enter(F, "generate_move_water") EXCEPT !.last_val = 0]

move_air_enter(F) == [Enter(F, "generate_move_air") EXCEPT !.phase = <<0, 0, 0>>]

\* kick_phase, hat_phase and bass_phase are set to 0 and never read
music_enter(F) == Enter(F, "generate_music")

\* ---- one iteration of each loop ----
shoot_body(F, raw) ==
    LET G == Iterate(F)
    IN  Pack([G EXCEPT !.envelope = ShootEnvelope(G.i)], ShootValue(G.i, raw))

explosion_body(F, raw_noise) ==
    LET G == Iterate(F)
        value == LowPassHalf(F.last_val, raw_noise)
    IN  Pack([G EXCEPT !.envelope = ExplosionEnvelope(G.i), !.last_val = value],
             ExplosionValue(G.i, value))

recruit_body(F) ==
    LET G == Iterate(F)
    IN  Pack([G EXCEPT !.envelope = Gain(RecruitEnvelope(G.i, sample_rate))],
             RecruitValue(G.i))

move_land_body(F, noise) ==
    LET G == Iterate(F)
    IN  Pack([G EXCEPT !.envelope = LandEnvelope(G.i)], LandValue(G.i, noise))

move_water_body(F, raw) ==
    LET G == Iterate(F)
        val == LowPassStrong(F.last_val, raw)
    IN  Pack([G EXCEPT !.last_val = val, !.envelope = WaterEnvelope(G.i)],
             WaterValue(G.i, val))

move_air_body(F) ==
    LET G == Iterate(F)
        ph == AirPhase(F.phase)
    IN  Pack([G EXCEPT !.phase = ph, !.envelope = Gain(AirEnvelope(G.i))],
             AirValue(G.i, ph))

\* r: rounding of the float time at this sample; h_noise: the hi-hat's draw
music_body(F, r, h_noise) ==
    LET G  == Iterate(F)
        tk == ExactTicks(G.i) + r
        bt == tk % BeatTicks
        v  == [on    |-> {g \in {"kick", "hat", "bass"} :
                              \/ g = "kick" /\ KickOn(bt)
                              \/ g = "hat" /\ HatOn(bt)
                              \/ g = "bass" /\ BassOn(bt)},
               kick  |-> IF KickOn(bt) THEN KickVoice(bt) ELSE 0,
               hat   |-> IF HatOn(bt) THEN HatVoice(bt, h_noise) ELSE 0,
               bass  |-> IF BassOn(bt) THEN BassVoice(G.i, tk, bt) ELSE 0,
               lead  |-> LeadVoice(G.i, tk),
               k_env |-> IF KickOn(bt) THEN KickEnv(bt) ELSE 0,
               h_env |-> IF HatOn(bt) THEN HatEnv(bt) ELSE 0,
               b_env |-> IF BassOn(bt) THEN Gain(BassEnv(bt)) ELSE 0,
               l_env |-> LeadEnv(tk),
               b_freq |-> IF BassOn(bt) THEN BassFreq(tk) ELSE 0]
    IN  Pack([G EXCEPT !.beat_time = bt, !.bar_time = tk % BarTicks,
                       !.bar_index = BarIndex(tk), !.step = LeadStep(tk),
                       !.note = LeadNote(LeadStep(tk)), !.voices = v],
             v.kick + v.hat + v.bass + v.lead)

\* ---- state ----
VARIABLES
    fn,      \* the function that __main__ called
    loc,     \* "call": at its first statement; "loop": in its for loop;
             \* "return": it has written its file
    frame,   \* the locals
    twin,    \* frames of a second execution of the same call, fed the same
             \* draws (empty when a single execution is followed)
    wav,     \* the files written: name, number of frames, frame rate
    probe    \* argument and result of a function evaluated on its own

vars == <<fn, loc, frame, twin, wav, probe>>

\* ---- __main__: the calls, in order ----
Lowest == -NoiseScale

Highest == NoiseScale - 1

\* the last iteration but one of move_air leaves phase = 0x1.fe422d4766ddap-1
PhaseBeforeLast == <<522504, 1483699, 907776>>

Body(f, F, raw, r) ==
    CASE f = "generate_shoot"      -> shoot_body(F, raw)
      [] f = "generate_explosion"  -> explosion_body(F, raw)
      [] f = "generate_recruit"    -> recruit_body(F)
      [] f = "generate_move_land"  -> move_land_body(F, raw)
      [] f = "generate_move_water" -> move_water_body(F, raw)
      [] f = "generate_move_air"   -> move_air_body(F)
      [] f = "generate_music"      -> music_body(F, r, raw)

\* The frame when the first k functions have run and every draw was d: the
\* filters have settled on d, and the last iteration of function k has run.
BeforeLast(k, d) ==
    [Unbound EXCEPT
       !.n_samples = NSamples(Order[k]),
       !.it = NSamples(Order[k]) - 1,
       !.i = NSamples(Order[k]) - 2,
       !.len = NSamples(Order[k]) - 1,
       !.last_val = IF k >= 2 THEN d ELSE 0,
       !.phase = IF k = 6 THEN PhaseBeforeLast
                 ELSE IF k = 7 THEN AirPhase(PhaseBeforeLast) ELSE <<0, 0, 0>>,
       !.envelope = IF k = 7
                    THEN Gain(AirEnvelope(NSamples("generate_move_air") - 1))
                    ELSE 0]

Leftover(k, d) == IF k = 0 THEN Unbound ELSE Body(Order[k], BeforeLast(k, d), d, 0)

Written(k) ==
    [j \in 1 .. k |-> [name |-> FileName(Order[j]), frames |-> NSamples(Order[j]),
                       framerate |-> sample_rate]]

\* __main__ has called function k of Order; the functions before it have run
\* (every draw so far was the lowest level)
Called(k) ==
    /\ fn = Order[k]
    /\ loc = "call"
    /\ frame = Leftover(k - 1, Lowest)
    /\ wav = Written(k - 1)
    /\ probe = [arg |-> 0, out |-> 0]

Init == \E k \in 1 .. Len(Order) : Called(k) /\ twin = {}

\* the same, followed together with a second call of the same function made
\* after the first one returned (every draw before it was the highest level)
InitTwice == \E k \in 1 .. Len(Order) : Called(k) /\ twin = {Leftover(k, Highest)}

\* ---- the actions ----
AtCall(f) == fn = f /\ loc = "call" /\ loc' = "loop" /\ UNCHANGED <<fn, wav, probe>>

InLoop(f) ==
    /\ fn = f
    /\ loc = "loop"
    /\ frame.it < frame.n_samples
    /\ UNCHANGED <<fn, loc, wav, probe>>

shoot_setup ==
    /\ AtCall("generate_shoot")
    /\ frame' = shoot_enter(frame)
    /\ twin' = {shoot_enter(G) : G \in twin}

shoot_loop ==
    /\ InLoop("generate_shoot")
    /\ \E raw \in Noise :
          /\ frame' = shoot_body(frame, raw)
          /\ twin' = {shoot_body(G, raw) : G \in twin}

explosion_setup ==
    /\ AtCall("generate_explosion")
    /\ frame' = explosion_enter(frame)
    /\ twin' = {explosion_enter(G) : G \in twin}

explosion_loop ==
    /\ InLoop("generate_explosion")
    /\ \E raw_noise \in Noise :
          /\ frame' = explosion_body(frame, raw_noise)
          /\ twin' = {explosion_body(G, raw_noise) : G \in twin}

recruit_setup ==
    /\ AtCall("generate_recruit")
    /\ frame' = recruit_enter(frame)
    /\ twin' = {recruit_enter(G) : G \in twin}

recruit_loop ==
    /\ InLoop("generate_recruit")
    /\ frame' = recruit_body(frame)
    /\ twin' = {recruit_body(G) : G \in twin}

move_land_setup ==
    /\ AtCall("generate_move_land")
    /\ frame' = move_land_enter(frame)
    /\ twin' = {move_land_enter(G) : G \in twin}

move_land_loop ==
    /\ InLoop("generate_move_land")
    /\ \E noise \in Noise :
          /\ frame' = move_land_body(frame, noise)
          /\ twin' = {move_land_body(G, noise) : G \in twin}

move_water_setup ==
    /\ AtCall("generate_move_water")
    /\ frame' = move_water_enter(frame)
    /\ twin' = {move_water_enter(G) : G \in twin}

move_water_loop ==
    /\ InLoop("generate_move_water")
    /\ \E raw \in Noise :
          /\ frame' = move_water_body(frame, raw)
          /\ twin' = {move_water_body(G, raw) : G \in twin}

move_air_setup ==
    /\ AtCall("generate_move_air")
    /\ frame' = move_air_enter(frame)
    /\ twin' = {move_air_enter(G) : G \in twin}

move_air_loop ==
    /\ InLoop("generate_move_air")
    /\ frame' = move_air_body(frame)
    /\ twin' = {move_air_body(G) : G \in twin}

music_setup ==
    /\ AtCall("generate_music")
    /\ frame' = music_enter(frame)
    /\ twin' = {music_enter(G) : G \in twin}

music_loop ==
    /\ InLoop("generate_music")
    /\ \E r \in Rounding(frame.it) :
       \E h_noise \in IF HatOn((ExactTicks(frame.it) + r) % BeatTicks)
                      THEN Noise ELSE {0} :
          /\ frame' = music_body(frame, r, h_noise)
          /\ twin' = {music_body(G, r, h_noise) : G \in twin}

\* the loop is over: write_wav(filename, data), and the function returns
write_wav ==
    /\ loc = "loop"
    /\ ~(frame.it < frame.n_samples)
    /\ wav' = Append(wav, [name |-> FileName(fn), frames |-> frame.len,
                           framerate |-> sample_rate])
    /\ loc' = "return"
    /\ UNCHANGED <<fn, frame, twin, probe>>

Next ==
    \/ shoot_setup \/ shoot_loop
    \/ explosion_setup \/ explosion_loop
    \/ recruit_setup \/ recruit_loop
    \/ move_land_setup \/ move_land_loop
    \/ move_water_setup \/ move_water_loop
    \/ move_air_setup \/ move_air_loop
    \/ music_setup \/ music_loop
    \/ write_wav

Spec == Init /\ [][Next]_vars

SpecTwice == InitTwice /\ [][Next]_vars

\* ---- the whole program ----
\* __main__ calls the next function of Order.  Under Program with every draw
\* at the lowest level, the states with loc = "call" are exactly the initial
\* states of Spec.
main_next ==
    /\ loc = "return"
    /\ \E k \in 1 .. Len(Order) - 1 : fn = Order[k] /\ fn' = Order[k + 1]
    /\ loc' = "call"
    /\ UNCHANGED <<frame, twin, wav, probe>>

Program == (Called(1) /\ twin = {}) /\ [][Next \/ main_next]_vars

\* ---- the quantizer on its own ----
\* values before quantization, over ValScale: from -2.0 to 2.0, which covers
\* the range [-1, 1] and every overshoot the mixes can produce
QuantInputs == (-2 * ValScale) .. (2 * ValScale)

InitQuantizer ==
    /\ fn = "quantizer"
    /\ loc = "call"
    /\ frame = Unbound
    /\ twin = {}
    /\ wav = <<>>
    /\ \E v \in QuantInputs : probe = [arg |-> v, out |-> 0]

quantize ==
    /\ fn = "quantizer"
    /\ loc = "call"
    /\ frame' = Pack(frame, probe.arg)
    /\ probe' = [probe EXCEPT !.out = frame'.sample]
    /\ loc' = "return"
    /\ UNCHANGED <<fn, twin, wav>>

SpecQuantizer == InitQuantizer /\ [][quantize]_vars

\* ---- the recruit envelope on its own ----
\* times t = arg / sample_rate from 0 to the full duration (0.5 s) inclusive
EnvelopeInputs == 0 .. NSamples("generate_recruit")

InitEnvelope ==
    /\ fn = "envelope"
    /\ loc = "call"
    /\ frame = Unbound
    /\ twin = {}
    /\ wav = <<>>
    /\ \E n \in EnvelopeInputs : probe = [arg |-> n, out |-> <<0, 1>>, before |-> <<0, 1>>]

\* the envelope at t, and at the sample time before it
evaluate ==
    /\ fn = "envelope"
    /\ loc = "call"
    /\ probe' = [probe EXCEPT
                   !.out = RecruitEnvelope(probe.arg, sample_rate),
                   !.before = RecruitEnvelope(Max(probe.arg - 1, 0), sample_rate)]
    /\ loc' = "return"
    /\ UNCHANGED <<fn, frame, twin, wav>>

SpecEnvelope == InitEnvelope /\ [][evaluate]_vars

\* ======================= the claims =======================

\* C1: every sample packed by any of the seven functions is an integer s with
\* -32767 <= s <= 32767, whatever the noise source draws and however far the
\* value overshoots [-1, 1] before quantization.
C1_SampleInRange == frame.len > 0 => frame.sample \in -32767 .. 32767

\* C1 witness: move_water's boosted value overshoots 1.0 and is packed as 32767
C1_Overshoot ==
    /\ fn = "generate_move_water"
    /\ loc = "loop"
    /\ frame.final_val > ValScale
    /\ frame.sample = 32767

\* C3 as stated: the quantizer emits the integer nearest to
\* clamp(v * 32767, -32767, 32767) (x = v * 32767 over ValScale; nearest means
\* |out - x| <= 1/2).
C3_RoundsToNearest ==
    loc = "return" /\ fn = "quantizer" =>
        LET x == Max(-32767 * ValScale, Min(32767 * ValScale, probe.arg * 32767))
        IN  2 * Abs(probe.out * ValScale - x) <= ValScale

\* C3 as amended: the quantizer emits clamp(v * 32767, -32767, 32767) with its
\* fraction dropped (rounded toward zero): the integer of the same sign with
\* |out| <= |x| < |out| + 1.
C3_Truncates ==
    loc = "return" /\ fn = "quantizer" =>
        LET x == Max(-32767 * ValScale, Min(32767 * ValScale, probe.arg * 32767))
        IN  /\ (x >= 0 => probe.out >= 0)
            /\ (x <= 0 => probe.out <= 0)
            /\ Abs(probe.out) * ValScale <= Abs(x)
            /\ Abs(x) < (Abs(probe.out) + 1) * ValScale

\* C3 witness: a negative value whose product has a fraction above one half
\* has been quantized
C3_NegativeFraction ==
    /\ loc = "return"
    /\ fn = "quantizer"
    /\ probe.arg < 0
    /\ probe.arg > -ValScale
    /\ 2 * ((-probe.arg * 32767) % ValScale) > ValScale
    /\ probe.out < 0

\* C4: in move_air, after every sample step the phase accumulator lies in
\* [0, 1) and the sawtooth 2p - 1 in [-1, 1).
C4_PhaseInUnitInterval ==
    fn = "generate_move_air" /\ loc \in {"loop", "return"} =>
        /\ \A k \in 1 .. 3 : frame.phase[k] >= 0
        /\ LessThanOne(frame.phase)
        /\ AirSaw(frame.phase) >= -GainScale
        /\ AirSaw(frame.phase) < GainScale

\* C4 witness: the step at sample 293 took the phase above 1 and wrapped it
C4_Wrapped ==
    /\ fn = "generate_move_air"
    /\ loc = "loop"
    /\ frame.i = 293
    /\ frame.phase[1] = 0
    /\ frame.phase # <<0, 0, 0>>

\* the sample counts the durations 0.2, 0.8, 0.5, 0.15, 0.3 and 0.4 s and four
\* bars at 130 BPM give at 44100 samples per second
ExpectedFrames(f) ==
    CASE f = "generate_shoot"      -> 8820
      [] f = "generate_explosion"  -> 35280
      [] f = "generate_recruit"    -> 22050
      [] f = "generate_move_land"  -> 6615
      [] f = "generate_move_water" -> 13230
      [] f = "generate_move_air"   -> 17640
      [] f = "generate_music"      -> 325661

\* the work a call has left
C2_Rank ==
    CASE loc = "call"   -> ExpectedFrames(fn) + 2
      [] loc = "loop"   -> frame.n_samples - frame.it + 1
      [] loc = "return" -> 0

C2_Counts ==
    /\ loc \in {"loop", "return"} =>
          /\ frame.n_samples = ExpectedFrames(fn)
          /\ frame.len = frame.it
          /\ frame.len <= frame.n_samples
          /\ (frame.len > 0 => frame.i = frame.len - 1)
    /\ loc = "return" =>
          /\ frame.len = ExpectedFrames(fn)
          /\ wav[Len(wav)].frames = ExpectedFrames(fn)
    /\ C2_Rank >= 0
    /\ (C2_Rank = 0 <=> loc = "return")

\* C2: every loop terminates (the work left is a natural number that every
\* step of the call lowers, and it is 0 exactly when the function has
\* returned), and the buffer it produced holds exactly
\* floor(duration * sample_rate) samples, one appended per index 0 .. n-1.
C2_LengthAndTermination == []C2_Counts /\ [][C2_Rank' < C2_Rank]_vars

\* C2 witness: the music loop has ended with 325661 samples written
C2_MusicWritten ==
    /\ fn = "generate_music"
    /\ loc = "return"
    /\ frame.i = 325660
    /\ wav[Len(wav)] = [name |-> "defcat_main_menu.mp3", frames |-> 325661,
                        framerate |-> 44100]

\* C5: a second call of the same function that is fed the same draws produces
\* the same buffer, sample for sample: in both calls the filter memory and
\* the phase start from 0, and nothing an earlier call left behind reaches a
\* sample.
C5_SameBuffers ==
    loc \in {"loop", "return"} =>
        \A G \in twin :
            /\ G.n_samples = frame.n_samples
            /\ G.it = frame.it
            /\ G.len = frame.len
            /\ (frame.len > 0 => G.sample = frame.sample)
            /\ (fn \in {"generate_explosion", "generate_move_water"} =>
                    /\ G.last_val = frame.last_val
                    /\ (frame.it = 0 => frame.last_val = 0))
            /\ (fn = "generate_move_air" =>
                    /\ G.phase = frame.phase
                    /\ (frame.it = 0 => frame.phase = <<0, 0, 0>>))

\* C5 witness: both calls of generate_explosion have finished with a non-zero
\* last sample, having started from different leftovers
C5_BothFinished ==
    /\ fn = "generate_explosion"
    /\ loc = "return"
    /\ twin # {}
    /\ frame.sample # 0
    /\ Leftover(1, Lowest).last_val # Leftover(2, Highest).last_val

\* the gates of the sequencer as the claims state them, for a beat time in ticks
C6_KickGate(bt) == 100 * bt < 15 * TicksPerSec

C10_BassGate(bt) == 2 * bt > BeatTicks

C10_HatGate(bt) == 2 * bt > BeatTicks /\ 10 * (2 * bt - BeatTicks) < 2 * TicksPerSec

\* a sample of the music loop has been packed
MusicSample == fn = "generate_music" /\ loc \in {"loop", "return"} /\ frame.len > 0

\* C6: at every sample of the four bars, the kick adds a non-zero value only
\* when t mod beat_duration < 0.15; whenever the bass branch runs its
\* frequency is 55 Hz in bars 0 and 2 and 41.2 Hz in bars 1 and 3; the bar
\* index floor(t / bar_duration) is in 0 .. 3.
C6_KickAndBassTiming ==
    MusicSample =>
        /\ \E r \in {-1, 0, 1} :
              /\ frame.beat_time = (ExactTicks(frame.i) + r) % BeatTicks
              /\ frame.bar_index = (ExactTicks(frame.i) + r) \div BarTicks
        /\ (frame.voices.kick # 0 => C6_KickGate(frame.beat_time))
        /\ frame.bar_index \in 0 .. 3
        /\ ("bass" \in frame.voices.on =>
               /\ frame.bar_index \in {0, 2} => frame.voices.b_freq = 550
               /\ frame.bar_index \in {1, 3} => frame.voices.b_freq = 412)

\* C6 witness: in the last bar the bass sounds at 41.2 Hz
C6_BassInLastBar ==
    /\ MusicSample
    /\ frame.bar_index = 3
    /\ frame.voices.bass # 0
    /\ frame.voices.b_freq = 412

\* a fraction <<a, b>> of the envelope in 44100ths (b is 1 or 44100)
C7_Over(e) == e[1] * (44100 \div e[2])

\* C7: the recruit envelope is 0 at t = 0 and t = 0.5, 1.0 for 0.1 <= t <= 0.4,
\* t / 0.1 for t < 0.1 and (0.5 - t) / 0.1 for t > 0.4, and makes no jump:
\* from one sample time to the next it moves by at most the ramps' slope.
\* (t = arg / 44100: 0.1 s is 4410, 0.4 s is 17640, 0.5 s is 22050.)
C7_RecruitEnvelopeShape ==
    loc = "return" /\ fn = "envelope" =>
        LET n == probe.arg
            e == C7_Over(probe.out)
        IN  /\ 44100 % probe.out[2] = 0
            /\ (n = 0 => e = 0)
            /\ (n = 22050 => e = 0)
            /\ (n >= 4410 /\ n <= 17640 => e = 44100)
            /\ (n < 4410 => e = 10 * n)
            /\ (n > 17640 => e = 10 * (22050 - n))
            /\ Abs(e - C7_Over(probe.before)) <= 10

\* C7 witness: the envelope was evaluated at t = 0.4, the last sustained time
C7_AtReleaseStart ==
    /\ loc = "return"
    /\ fn = "envelope"
    /\ probe.arg = 17640
    /\ probe.out = <<1, 1>>

\* C8: at every sampled time the envelope gain of every sound and of every
\* music voice lies in [0, 1].
C8_GainsInUnitRange ==
    loc \in {"loop", "return"} /\ frame.len > 0 =>
        /\ frame.envelope \in 0 .. GainScale
        /\ frame.voices.k_env \in 0 .. GainScale
        /\ frame.voices.h_env \in 0 .. GainScale
        /\ frame.voices.b_env \in 0 .. GainScale
        /\ frame.voices.l_env \in 0 .. GainScale

\* C8 witness: the bass and the hi-hat sound together, each at a gain
\* strictly between 0 and 1
C8_OffBeatGains ==
    /\ MusicSample
    /\ {"hat", "bass"} \subseteq frame.voices.on
    /\ frame.voices.b_env > 0 /\ frame.voices.b_env < GainScale
    /\ frame.voices.h_env > 0 /\ frame.voices.h_env < GainScale

\* the eight notes of the arpeggio
C9_Arpeggio == <<440, 554, 659, 880, 659, 554, 440, 329>>

C9_StepInv ==
    MusicSample =>
        /\ frame.step \in 0 .. 15
        /\ frame.step = frame.bar_time \div SixteenthTicks
        /\ frame.note = C9_Arpeggio[(frame.step % 8) + 1]

\* from one sample to the next the step stays, or moves on by one exactly when
\* a sixteenth note is over, or returns from 15 to 0 exactly when a bar is over
C9_StepMove ==
    MusicSample /\ loc' = "loop" =>
        LET over == frame'.bar_time % SixteenthTicks < frame.bar_time % SixteenthTicks
        IN  /\ over <=> frame'.step # frame.step
            /\ \/ frame'.step = frame.step /\ frame'.bar_index = frame.bar_index
               \/ frame'.step = frame.step + 1 /\ frame'.bar_index = frame.bar_index
               \/ /\ frame.step = 15 /\ frame'.step = 0
                  /\ frame'.bar_index = frame.bar_index + 1

\* C9: at every sample the lead's step floor((t mod bar_duration) /
\* sixteenth) is in 0 .. 15 and the note is element (step mod 8) of
\* [440,554,659,880,659,554,440,329]; the step advances by exactly one every
\* sixteenth note and returns to 0 at every bar start.
C9_LeadArpeggio == []C9_StepInv /\ [][C9_StepMove]_vars

\* C9 witness: the third bar has begun again at step 0 with the first note
C9_BarRestart ==
    /\ MusicSample
    /\ frame.bar_index = 2
    /\ frame.step = 0
    /\ frame.note = 440

\* C10: the kick's branch never runs at a sample where the hi-hat's or the
\* bass's runs, the hi-hat's runs only where the bass's runs; the four voices
\* stay within 0.8, 0.3, 0.2 and 0.15, their sum within 0.95 on the beat and
\* 0.65 off it, so the sum is below 1 in magnitude and is packed unclamped.
C10_GatesAndHeadroom ==
    MusicSample =>
        LET v == frame.voices
        IN  /\ ("kick" \in v.on <=> C6_KickGate(frame.beat_time))
            /\ ("hat" \in v.on <=> C10_HatGate(frame.beat_time))
            /\ ("bass" \in v.on <=> C10_BassGate(frame.beat_time))
            /\ ~("kick" \in v.on /\ ("hat" \in v.on \/ "bass" \in v.on))
            /\ ("hat" \in v.on => "bass" \in v.on)
            /\ 100 * Abs(v.kick) <= 80 * ValScale
            /\ 100 * Abs(v.hat) <= 30 * ValScale
            /\ 100 * Abs(v.bass) <= 20 * ValScale
            /\ 100 * Abs(v.lead) <= 15 * ValScale
            /\ frame.final_val = v.kick + v.hat + v.bass + v.lead
            /\ 100 * Abs(frame.final_val)
                  <= (IF "kick" \in v.on THEN 95 ELSE 65) * ValScale
            /\ Abs(frame.final_val) < ValScale
            /\ Abs(frame.sample) < 32767
            /\ Abs(frame.sample * ValScale - frame.final_val * 32767) < ValScale

\* C10 witness: hi-hat and bass both add to a sample off the beat
C10_OffBeatMix ==
    /\ MusicSample
    /\ frame.voices.hat # 0
    /\ frame.voices.bass # 0
    /\ frame.voices.kick = 0
    /\ frame.sample # 0

====
